---- MODULE Spec2Model ----
\* KVideo: the PasswordGate component (src/components/PasswordGate.tsx) and the
\* useSubscriptionSync hook it mounts (src/unnamed/part_000), over the shared
\* settings store and the browser's sessionStorage.
EXTENDS Naturals, Sequences, FiniteSets

\* ------------------------------------------------------------------ bounds

\* Candidate passwords a user can type / the store can hold.
Passwords == {"a", "b"}

\* Unlock POSTs to /api/config that may be in flight at the same time.
MaxPosts == 2

\* The clock (Date.now(), in debounce periods) stops advancing here.
MaxTime == 1

\* sync() invocations that may be awaiting a fetch at the same time.
MaxBatches == 1

\* The count of timers armed in one burst saturates here.
MaxBurst == 3

\* The count of sync() runs since the last outside change saturates here.
MaxPasses == 3

\* The clock bound and the overlapping sync() invocations of ChainSpec.
MaxChainTime == 3
MaxOverlap == 2

\* setTimeout(sync, 1000): the delay, in clock units of one debounce period.
DebounceDelay == 1

\* ------------------------------------------------------------------ state

VARIABLES
    settings,               \* settingsStore's Settings object
    sessionStorage,         \* sessionStorage[SESSION_UNLOCKED_KEY]: "null" | "true"
    initialHasEnvPassword,  \* the hasEnvPassword prop
    isLocked, password, error, isClient, hasEnvPassword, isValidating,
    mounted,                \* init effect's `mounted` (component is mounted)
    initPc,                 \* init(): "start" | "fetching" | "done"
    initSettings,           \* init()'s `settings` snapshot (line 25)
    initIsUnlocked,         \* init()'s `isUnlocked` snapshot (line 26)
    posts,                  \* POST /api/config requests of handleUnlock in flight
    subscriptions,          \* the hook's useState value
    timers,                 \* pending setTimeout(sync, 1000) closures, oldest first
    timeoutPending,         \* the current effect's timeoutId has not fired yet
    batches,                \* sync() invocations awaiting a fetch
    now,                    \* Date.now()
    burst,                  \* timers armed / fired since no timer was pending
    passes,                 \* sync() runs that fetched since the last outside change
    ev                      \* the handler (and its branch) that made the last step

gateVars == <<initialHasEnvPassword, isLocked, password, error, isClient,
              hasEnvPassword, isValidating, mounted, initPc, initSettings,
              initIsUnlocked, posts>>
hookVars == <<subscriptions, timers, timeoutPending, burst>>
syncVars == <<batches, now, passes>>
vars == <<settings, sessionStorage, gateVars, hookVars, syncVars, ev>>

Min(a, b) == IF a < b THEN a ELSE b

Range(f) == {f[i] : i \in DOMAIN f}

\* ------------------------------------------------------------------ PasswordGate

SESSION_UNLOCKED == "true"

\* sessionStorage.getItem(SESSION_UNLOCKED_KEY) === 'true'
isUnlocked == sessionStorage = SESSION_UNLOCKED

\* Locked with && written as ||.
LockedOrNotUnlocked(passwordAccess, envPassword, unlocked) ==
    (passwordAccess \/ envPassword) \/ ~unlocked

\* (settings.passwordAccess || hasEnvPassword) && !isUnlocked
Locked(passwordAccess, envPassword, unlocked) ==
    (passwordAccess \/ envPassword) /\ ~unlocked

\* init() step 1: localLocked, from the settings and the flag just read.
localLocked(s, unlocked) ==
    Locked(s.passwordAccess, initialHasEnvPassword, unlocked)

\* confirmLocked without its && !isUnlocked.
confirmLockedNoSession(dataHasEnvPassword) ==
    initSettings.passwordAccess \/ dataHasEnvPassword

\* init() step 2: confirmLocked, from init()'s own `settings` and `isUnlocked`
\* (read before the await) and the server's answer.
confirmLocked(dataHasEnvPassword) ==
    Locked(initSettings.passwordAccess, dataHasEnvPassword, initIsUnlocked)

\* handleSettingsUpdate: which branch runs for store settings s, with the
\* hasEnvPassword of the render that subscribed the handler.
UpdateBranch(s, envKnown) ==
    IF ~s.passwordAccess /\ ~envKnown THEN "unlock"
    ELSE IF s.passwordAccess /\ ~isUnlocked THEN "lock"
    ELSE "none"

\* handleSettingsUpdate: the lock state it leaves (cur when no branch assigns).
handleSettingsUpdate(s, envKnown, cur) ==
    CASE UpdateBranch(s, envKnown) = "unlock" -> FALSE
      [] UpdateBranch(s, envKnown) = "lock"   -> TRUE
      [] OTHER                                -> cur

\* The effects' cleanups have run: the component is gone.
Disposed == ~mounted /\ initPc # "start"

\* Render without the isClient test.
RenderNoClientTest ==
    IF Disposed THEN "unmounted"
    ELSE IF ~isLocked THEN "children"
    ELSE "prompt"

\* What the component renders (lines 140-146); the first render precedes the
\* effects.
Render ==
    IF Disposed THEN "unmounted"
    ELSE IF ~isClient THEN "null"
    ELSE IF ~isLocked THEN "children"
    ELSE "prompt"

\* ------------------------------------------------------------------ hook: effects

\* A cleanup that leaves the timer pending.
clearTimeoutNoop(ts, pending) == ts

\* The sync effect's cleanup: clearTimeout(timeoutId). The effect's own timer
\* is the newest one; clearing a timer that has fired does nothing.
clearTimeout(ts, pending) == IF pending THEN SubSeq(ts, 1, Len(ts) - 1) ELSE ts

\* The sync effect re-run for a new `subscriptions` array: the cleanup of the
\* previous run, then setTimeout(sync, 1000) with sync closed over subs.
Rearm(subs) ==
    /\ subscriptions' = subs
    /\ timers' = Append(clearTimeout(timers, timeoutPending),
                        [subscriptions |-> subs, due |-> now + DebounceDelay])
    /\ timeoutPending' = TRUE
    /\ burst' = IF timers = <<>>
                THEN [armed |-> 1, fired |-> 0]
                ELSE [burst EXCEPT !.armed = Min(@ + 1, MaxBurst)]

\* ------------------------------------------------------------------ settingsStore

\* settingsStore.saveSettings(s) and the listeners it calls, as far as the hook
\* goes: the hook's listener stores getSettings().subscriptions, and the sync
\* effect re-runs when that array is another object than the one it held.
Saved(s, replaced) ==
    /\ settings' = s
    /\ IF mounted /\ replaced THEN Rearm(s.subscriptions) ELSE UNCHANGED hookVars

\* The gate's listener, called by the store after a save of s.
GateNotified(s) ==
    isLocked' = IF mounted THEN handleSettingsUpdate(s, hasEnvPassword, isLocked)
                ELSE isLocked

\* Array.prototype.findIndex(s => s.id === id), 1-based; 0 for -1.
findIndex(subs, id) ==
    IF \E i \in 1..Len(subs) : subs[i].id = id
    THEN CHOOSE i \in 1..Len(subs) :
            subs[i].id = id /\ \A j \in 1..(i - 1) : subs[j].id # id
    ELSE 0

\* settingsStore.syncEnvSubscriptions(list): the server-declared subscriptions
\* not yet in the store (by id) are appended.
RECURSIVE mergeEnv(_, _)
mergeEnv(subs, list) ==
    IF list = <<>> THEN subs
    ELSE mergeEnv(IF findIndex(subs, Head(list).id) # 0 THEN subs
                  ELSE Append(subs, Head(list)), Tail(list))

syncEnvSubscriptions(s, list) ==
    [s EXCEPT !.subscriptions = mergeEnv(s.subscriptions, list)]

\* mergeSources(existing, incoming): existing, then the incoming sources that
\* are not in it yet.
RECURSIVE mergeSources(_, _)
mergeSources(existing, incoming) ==
    IF incoming = <<>> THEN existing
    ELSE mergeSources(IF Head(incoming) \in Range(existing) THEN existing
                      ELSE Append(existing, Head(incoming)), Tail(incoming))

\* ------------------------------------------------------------------ inputs

\* Subscription 4 has automatic refresh switched off.
SubIds == {1, 2, 3, 4}

\* The subscriptions the settings page adds and removes.
EditedSubIds == {3}

Sub(i) ==
    [id |-> i,
     autoRefresh |-> IF i = 2 THEN "true" ELSE IF i = 4 THEN "false" ELSE "undefined",
     lastUpdated |-> 0]

\* data.subscriptionSources of GET /api/config, when present.
EnvSubscriptionSources == {<<Sub(1)>>}

\* What a subscription's feed holds.
Feed(i) ==
    [ok |-> TRUE,
     normalSources |-> IF i = 1 THEN <<"s1">> ELSE IF i = 2 THEN <<"s1", "s2">> ELSE <<"s3">>,
     premiumSources |-> IF i = 2 THEN <<"p2">> ELSE <<>>]

EmptyFeed == [ok |-> TRUE, normalSources |-> <<>>, premiumSources |-> <<>>]

\* fetchSourcesFromUrl threw.
Failure == [ok |-> FALSE, normalSources |-> <<>>, premiumSources |-> <<>>]

\* The outcomes of fetchSourcesFromUrl(sub.url).
FetchOutcomes(sub) == {Feed(sub.id), EmptyFeed, Failure}

GateSettings ==
    [passwordAccess : BOOLEAN, accessPasswords : SUBSET Passwords,
     subscriptions : {<<>>}, sources : {<<>>}, premiumSources : {<<>>}]

SyncSettings ==
    [passwordAccess : {FALSE}, accessPasswords : {{}},
     subscriptions : {<<Sub(1), Sub(2), Sub(3)>>},
     sources : {<<"s1">>}, premiumSources : {<<>>}]

\* ------------------------------------------------------------------ Init

InitCommon ==
    /\ isLocked = TRUE
    /\ password = ""
    /\ error = FALSE
    /\ isClient = FALSE
    /\ hasEnvPassword = initialHasEnvPassword
    /\ isValidating = FALSE
    /\ mounted = FALSE
    /\ initPc = "start"
    /\ initSettings = settings
    /\ initIsUnlocked = FALSE
    /\ posts = 0
    /\ subscriptions = settings.subscriptions
    /\ timers = <<>>
    /\ timeoutPending = FALSE
    /\ batches = <<>>
    /\ now = 0
    /\ burst = [armed |-> 0, fired |-> 0]
    /\ passes = 0
    /\ ev = "init"

GateInit ==
    /\ settings \in GateSettings
    /\ sessionStorage \in {"null", SESSION_UNLOCKED}
    /\ initialHasEnvPassword \in BOOLEAN
    /\ InitCommon

SyncInit ==
    /\ settings \in SyncSettings
    /\ sessionStorage = "null"
    /\ initialHasEnvPassword = FALSE
    /\ InitCommon

\* ------------------------------------------------------------------ PasswordGate: actions

\* A mount whose init() marks the session unlocked when no password is set.
MountMarksUnlocked ==
    /\ initPc = "start"
    /\ mounted' = TRUE
    /\ initSettings' = settings
    /\ initIsUnlocked' = isUnlocked
    /\ isLocked' = localLocked(settings, isUnlocked)
    /\ sessionStorage' = IF localLocked(settings, isUnlocked)
                         THEN sessionStorage ELSE SESSION_UNLOCKED
    /\ isClient' = TRUE
    /\ initPc' = "fetching"
    /\ Rearm(subscriptions)
    /\ ev' = "mount"
    /\ UNCHANGED <<settings, initialHasEnvPassword, password, error,
                   hasEnvPassword, isValidating, posts, syncVars>>

\* Mount: the effects of the first render. The hook's sync effect arms its
\* timer; init() runs up to its first await.
Mount ==
    /\ initPc = "start"
    /\ mounted' = TRUE
    /\ initSettings' = settings
    /\ initIsUnlocked' = isUnlocked
    /\ isLocked' = localLocked(settings, isUnlocked)
    /\ isClient' = TRUE
    /\ initPc' = "fetching"
    /\ Rearm(subscriptions)
    /\ ev' = "mount"
    /\ UNCHANGED <<settings, sessionStorage, initialHasEnvPassword, password, error,
                   hasEnvPassword, isValidating, posts, syncVars>>

\* GET /api/config answered ok with data = {hasEnvPassword, subscriptionSources?}.
ConfigOk(dataHasEnvPassword, hasSubs, list) ==
    /\ initPc = "fetching"
    /\ initPc' = "done"
    /\ IF mounted
       THEN /\ hasEnvPassword' = dataHasEnvPassword
            /\ IF hasSubs
               THEN Saved(syncEnvSubscriptions(settings, list), TRUE) /\ passes' = 0
               ELSE UNCHANGED <<settings, hookVars, passes>>
            \* the listener call made by the store inside syncEnvSubscriptions
            \* assigns before line 54 does, so line 54's value is the one kept
            /\ isLocked' = confirmLocked(dataHasEnvPassword)
            /\ ev' = "confirm"
       ELSE /\ UNCHANGED <<hasEnvPassword, settings, hookVars, isLocked, passes>>
            /\ ev' = "configDropped"
    /\ UNCHANGED <<sessionStorage, initialHasEnvPassword, password, error, isClient,
                   isValidating, mounted, initSettings, initIsUnlocked, posts,
                   batches, now>>

\* A catch block that opens the gate.
ConfigFailOpens ==
    /\ initPc = "fetching"
    /\ initPc' = "done"
    /\ isLocked' = FALSE
    /\ ev' = "configFail"
    /\ UNCHANGED <<settings, sessionStorage, initialHasEnvPassword, password,
                   error, isClient, hasEnvPassword, isValidating, mounted, initSettings,
                   initIsUnlocked, posts, hookVars, syncVars>>

\* GET /api/config failed (fetch rejected, or !res.ok): the catch block.
ConfigFail ==
    /\ initPc = "fetching"
    /\ initPc' = "done"
    /\ ev' = "configFail"
    /\ UNCHANGED <<settings, sessionStorage, initialHasEnvPassword, isLocked, password,
                   error, isClient, hasEnvPassword, isValidating, mounted, initSettings,
                   initIsUnlocked, posts, hookVars, syncVars>>

\* Some writer (the settings page) saves the store with the password fields
\* changed; the gate's listener handleSettingsUpdate runs.
SaveSettings(pa, aps) ==
    LET s == [settings EXCEPT !.passwordAccess = pa, !.accessPasswords = aps]
    IN /\ s # settings
       /\ Saved(s, FALSE)
       /\ GateNotified(s)
       /\ ev' = IF mounted THEN UpdateBranch(s, hasEnvPassword) ELSE "saved"
       /\ UNCHANGED <<sessionStorage, initialHasEnvPassword, password, error, isClient,
                      hasEnvPassword, isValidating, mounted, initPc, initSettings,
                      initIsUnlocked, posts, syncVars>>

\* The prompt's input: onChange.
onChange(p) ==
    /\ Render = "prompt"
    /\ password # p
    /\ password' = p
    /\ error' = FALSE
    /\ ev' = "onChange"
    /\ UNCHANGED <<settings, sessionStorage, initialHasEnvPassword, isLocked, isClient,
                   hasEnvPassword, isValidating, mounted, initPc, initSettings,
                   initIsUnlocked, posts, hookVars, syncVars>>

\* handleUnlock asking the server before looking at accessPasswords.
handleUnlockServerFirst ==
    /\ Render = "prompt"
    /\ IF hasEnvPassword
       THEN /\ posts < MaxPosts
            /\ posts' = posts + 1
            /\ isValidating' = TRUE
            /\ ev' = "unlockPost"
            /\ UNCHANGED <<sessionStorage, isLocked, error>>
       ELSE IF password \in settings.accessPasswords
       THEN /\ sessionStorage' = SESSION_UNLOCKED
            /\ isLocked' = FALSE
            /\ error' = FALSE
            /\ isValidating' = FALSE
            /\ posts' = posts
            /\ ev' = "unlockLocal"
       ELSE /\ error' = TRUE
            /\ isValidating' = FALSE
            /\ ev' = "unlockNoMatch"
            /\ UNCHANGED <<sessionStorage, isLocked, posts>>
    /\ UNCHANGED <<settings, initialHasEnvPassword, password, isClient, hasEnvPassword,
                   mounted, initPc, initSettings, initIsUnlocked, hookVars, syncVars>>

\* handleUnlock up to its return or its await.
handleUnlock ==
    /\ Render = "prompt"
    /\ IF password \in settings.accessPasswords
       THEN /\ sessionStorage' = SESSION_UNLOCKED
            /\ isLocked' = FALSE
            /\ error' = FALSE
            /\ isValidating' = FALSE
            /\ posts' = posts
            /\ ev' = "unlockLocal"
       ELSE IF hasEnvPassword
       THEN /\ posts < MaxPosts
            /\ posts' = posts + 1
            /\ isValidating' = TRUE
            /\ ev' = "unlockPost"
            /\ UNCHANGED <<sessionStorage, isLocked, error>>
       ELSE /\ error' = TRUE
            /\ isValidating' = FALSE
            /\ ev' = "unlockNoMatch"
            /\ UNCHANGED <<sessionStorage, isLocked, posts>>
    /\ UNCHANGED <<settings, initialHasEnvPassword, password, isClient, hasEnvPassword,
                   mounted, initPc, initSettings, initIsUnlocked, hookVars, syncVars>>

\* POST /api/config answered {valid: true}. The setState calls reach the
\* component only while it is mounted; sessionStorage is written regardless.
PostValid ==
    /\ posts > 0
    /\ posts' = posts - 1
    /\ sessionStorage' = SESSION_UNLOCKED
    /\ IF mounted
       THEN isLocked' = FALSE /\ error' = FALSE /\ isValidating' = FALSE
       ELSE UNCHANGED <<isLocked, error, isValidating>>
    /\ ev' = "postValid"
    /\ UNCHANGED <<settings, initialHasEnvPassword, password, isClient, hasEnvPassword,
                   mounted, initPc, initSettings, initIsUnlocked, hookVars, syncVars>>

\* A rejected POST that falls through to the success path.
PostRejectedUnlocks ==
    /\ posts > 0
    /\ posts' = posts - 1
    /\ sessionStorage' = SESSION_UNLOCKED
    /\ IF mounted
       THEN isLocked' = FALSE /\ error' = TRUE /\ isValidating' = FALSE
       ELSE UNCHANGED <<isLocked, error, isValidating>>
    /\ ev' = "postRejected"
    /\ UNCHANGED <<settings, initialHasEnvPassword, password, isClient, hasEnvPassword,
                   mounted, initPc, initSettings, initIsUnlocked, hookVars, syncVars>>

\* POST /api/config answered without valid: true, or the request failed.
PostRejected ==
    /\ posts > 0
    /\ posts' = posts - 1
    /\ IF mounted
       THEN error' = TRUE /\ isValidating' = FALSE
       ELSE UNCHANGED <<error, isValidating>>
    /\ ev' = "postRejected"
    /\ UNCHANGED <<settings, sessionStorage, initialHasEnvPassword, isLocked, password,
                   isClient, hasEnvPassword, mounted, initPc, initSettings,
                   initIsUnlocked, hookVars, syncVars>>

\* Unmount: the effects' cleanups (mounted = false, unsubscribe, clearTimeout).
Unmount ==
    /\ mounted
    /\ mounted' = FALSE
    /\ timers' = clearTimeout(timers, timeoutPending)
    /\ timeoutPending' = FALSE
    /\ ev' = "unmount"
    /\ UNCHANGED <<settings, sessionStorage, initialHasEnvPassword, isLocked, password,
                   error, isClient, hasEnvPassword, isValidating, initPc, initSettings,
                   initIsUnlocked, posts, subscriptions, burst, syncVars>>

GateNext ==
    \/ Mount
    \/ \E d \in BOOLEAN, h \in BOOLEAN, l \in EnvSubscriptionSources : ConfigOk(d, h, l)
    \/ ConfigFail
    \/ \E pa \in BOOLEAN, aps \in SUBSET Passwords : SaveSettings(pa, aps)
    \/ \E p \in Passwords : onChange(p)
    \/ handleUnlock
    \/ PostValid
    \/ PostRejected
    \/ Unmount

GateSpec == GateInit /\ [][GateNext]_vars

\* ------------------------------------------------------------------ useSubscriptionSync: actions

\* A filter that keeps only autoRefresh === false.
IsActiveInverted(s) == s.autoRefresh = "false"

\* A filter that keeps every subscription.
IsActiveAlways(s) == TRUE

\* subscriptions.filter(s => s.autoRefresh !== false)
IsActive(s) == s.autoRefresh # "false"

RemoveAt(seq, k) == SubSeq(seq, 1, k - 1) \o SubSeq(seq, k + 1, Len(seq))

\* sync() from its start to its first await (lines 20-44), closed over subs.
\* log keeps what each fetch of the batch returned.
NewBatch(subs) ==
    [subscriptions |-> subs,
     active |-> SelectSeq(subs, IsActive),
     settings |-> settings,
     i |-> 1,
     anyChanged |-> FALSE,
     currentSources |-> settings.sources,
     currentPremiumSources |-> settings.premiumSources,
     updatedSubscriptions |-> subs,
     log |-> <<>>]

\* A loop body whose catch block throws the accumulated merges away.
AfterFetchDropsOnFailure(batch, r) ==
    IF ~r.ok
    THEN [batch EXCEPT !.currentSources = batch.settings.sources,
                       !.currentPremiumSources = batch.settings.premiumSources,
                       !.i = @ + 1, !.log = Append(@, r)]
    ELSE LET sub == batch.active[batch.i]
             subIdx == findIndex(batch.updatedSubscriptions, sub.id)
         IN [batch EXCEPT
               !.currentSources =
                   IF Len(r.normalSources) > 0 THEN mergeSources(@, r.normalSources) ELSE @,
               !.currentPremiumSources =
                   IF Len(r.premiumSources) > 0 THEN mergeSources(@, r.premiumSources) ELSE @,
               !.anyChanged =
                   @ \/ Len(r.normalSources) > 0 \/ Len(r.premiumSources) > 0,
               !.updatedSubscriptions =
                   IF subIdx # 0 THEN [@ EXCEPT ![subIdx].lastUpdated = now] ELSE @,
               !.i = @ + 1,
               !.log = Append(@, r)]

\* A loop body that merges into the lists sync() started from, not into the
\* accumulators.
AfterFetchMergesIntoSnapshot(batch, r) ==
    IF ~r.ok
    THEN [batch EXCEPT !.i = @ + 1, !.log = Append(@, r)]
    ELSE LET sub == batch.active[batch.i]
             subIdx == findIndex(batch.updatedSubscriptions, sub.id)
         IN [batch EXCEPT
               !.currentSources =
                   IF Len(r.normalSources) > 0
                   THEN mergeSources(batch.settings.sources, r.normalSources) ELSE @,
               !.currentPremiumSources =
                   IF Len(r.premiumSources) > 0
                   THEN mergeSources(batch.settings.premiumSources, r.premiumSources) ELSE @,
               !.anyChanged =
                   @ \/ Len(r.normalSources) > 0 \/ Len(r.premiumSources) > 0,
               !.updatedSubscriptions =
                   IF subIdx # 0 THEN [@ EXCEPT ![subIdx].lastUpdated = now] ELSE @,
               !.i = @ + 1,
               !.log = Append(@, r)]

\* One pass of the loop body (lines 43-66) for the outcome r of the awaited fetch.
AfterFetch(batch, r) ==
    IF ~r.ok
    THEN [batch EXCEPT !.i = @ + 1, !.log = Append(@, r)]
    ELSE LET sub == batch.active[batch.i]
             subIdx == findIndex(batch.updatedSubscriptions, sub.id)
         IN [batch EXCEPT
               !.currentSources =
                   IF Len(r.normalSources) > 0 THEN mergeSources(@, r.normalSources) ELSE @,
               !.currentPremiumSources =
                   IF Len(r.premiumSources) > 0 THEN mergeSources(@, r.premiumSources) ELSE @,
               !.anyChanged =
                   @ \/ Len(r.normalSources) > 0 \/ Len(r.premiumSources) > 0,
               !.updatedSubscriptions =
                   IF subIdx # 0 THEN [@ EXCEPT ![subIdx].lastUpdated = now] ELSE @,
               !.i = @ + 1,
               !.log = Append(@, r)]

\* The object sync() passes to saveSettings (lines 70-75).
Written(batch) ==
    [batch.settings EXCEPT !.sources = batch.currentSources,
                           !.premiumSources = batch.currentPremiumSources,
                           !.subscriptions = batch.updatedSubscriptions]

\* Time passes, up to limit.
Elapse(limit) ==
    /\ now < limit
    /\ now' = now + 1
    /\ ev' = "tick"
    /\ UNCHANGED <<settings, sessionStorage, gateVars, hookVars, batches, passes>>

Tick == Elapse(MaxTime)

\* A pending timeout fires: sync() runs up to its return or its first await.
\* At most cap invocations await a fetch at the same time.
Fire(k, cap) ==
    /\ k \in 1..Len(timers)
    /\ now >= timers[k].due
    /\ timers' = RemoveAt(timers, k)
    /\ timeoutPending' = (timeoutPending /\ k # Len(timers))
    /\ burst' = [burst EXCEPT !.fired = @ + 1]
    /\ LET batch == NewBatch(timers[k].subscriptions)
       IN IF Len(batch.active) = 0
          THEN batches' = batches /\ passes' = passes /\ ev' = "syncIdle"
          ELSE /\ Len(batches) < cap
               /\ batches' = Append(batches, batch)
               /\ passes' = Min(passes + 1, MaxPasses)
               /\ ev' = "syncStart"
    /\ UNCHANGED <<settings, sessionStorage, gateVars, subscriptions, now>>

TimerFire(k) == Fire(k, MaxBatches)

\* The fetch a batch awaits settles with r: the rest of the loop pass, then
\* either the next fetch is awaited or the loop ends and sync() saves.
FetchReturn(b, r) ==
    /\ b \in 1..Len(batches)
    /\ r \in FetchOutcomes(batches[b].active[batches[b].i])
    /\ LET batch == AfterFetch(batches[b], r)
       IN IF batch.i <= Len(batch.active)
          THEN /\ batches' = [batches EXCEPT ![b] = batch]
               /\ ev' = "fetched"
               /\ UNCHANGED <<settings, hookVars, isLocked>>
          ELSE /\ batches' = RemoveAt(batches, b)
               /\ IF batch.anyChanged
                  THEN /\ Saved(Written(batch), TRUE)
                       /\ GateNotified(Written(batch))
                       /\ ev' = "syncSaved"
                  ELSE /\ UNCHANGED <<settings, hookVars, isLocked>>
                       /\ ev' = "syncNoSave"
    /\ UNCHANGED <<sessionStorage, initialHasEnvPassword, password, error, isClient,
                   hasEnvPassword, isValidating, mounted, initPc, initSettings,
                   initIsUnlocked, posts, now, passes>>

\* The settings page saves the store with a subscription added.
AddSubscription(i) ==
    /\ findIndex(settings.subscriptions, i) = 0
    /\ LET s == [settings EXCEPT !.subscriptions = Append(@, Sub(i))]
       IN Saved(s, TRUE) /\ GateNotified(s)
    /\ ev' = "subscriptionAdded"
    /\ passes' = 0
    /\ UNCHANGED <<sessionStorage, initialHasEnvPassword, password, error, isClient,
                   hasEnvPassword, isValidating, mounted, initPc, initSettings,
                   initIsUnlocked, posts, batches, now>>

\* The settings page saves the store with a subscription removed.
RemoveSubscription(i) ==
    /\ findIndex(settings.subscriptions, i) # 0
    /\ LET s == [settings EXCEPT
                   !.subscriptions = RemoveAt(@, findIndex(@, i))]
       IN Saved(s, TRUE) /\ GateNotified(s)
    /\ ev' = "subscriptionRemoved"
    /\ passes' = 0
    /\ UNCHANGED <<sessionStorage, initialHasEnvPassword, password, error, isClient,
                   hasEnvPassword, isValidating, mounted, initPc, initSettings,
                   initIsUnlocked, posts, batches, now>>

SyncNext ==
    \/ Mount
    \/ \E l \in EnvSubscriptionSources : ConfigOk(FALSE, TRUE, l)
    \/ Tick
    \/ \E k \in 1..Len(timers) : TimerFire(k)
    \/ \E b \in 1..Len(batches) :
          \E r \in FetchOutcomes(batches[b].active[batches[b].i]) : FetchReturn(b, r)
    \/ \E i \in EditedSubIds : AddSubscription(i)
    \/ \E i \in EditedSubIds : RemoveSubscription(i)

\* The hook while its component stays mounted.
SyncSpec == SyncInit /\ [][SyncNext]_vars

\* ------------------------------------------------------------------ chains and overlaps

\* Two subscriptions, and time enough for three sync() runs in a row and for
\* two invocations awaiting fetches at the same time.
ChainSettings ==
    [passwordAccess : {FALSE}, accessPasswords : {{}},
     subscriptions : {<<Sub(1), Sub(2)>>},
     sources : {<<"s1">>}, premiumSources : {<<>>}]

ChainInit ==
    /\ settings \in ChainSettings
    /\ sessionStorage = "null"
    /\ initialHasEnvPassword = FALSE
    /\ InitCommon

ChainTick == Elapse(MaxChainTime)

ChainTimerFire(k) == Fire(k, MaxOverlap)

ChainNext ==
    \/ Mount
    \/ \E l \in EnvSubscriptionSources : ConfigOk(FALSE, TRUE, l)
    \/ ChainTick
    \/ \E k \in 1..Len(timers) : ChainTimerFire(k)
    \/ \E b \in 1..Len(batches) :
          \E r \in FetchOutcomes(batches[b].active[batches[b].i]) : FetchReturn(b, r)

\* The mounted hook with one outside replacement of the list (the gate's push).
ChainSpec == ChainInit /\ [][ChainNext]_vars

\* ------------------------------------------------------------------ switched-off subscriptions

\* A list that holds a subscription with autoRefresh: false, alone at first;
\* the gate pushes subscription 1 and the settings page adds and removes
\* subscription 2 (autoRefresh: true).
FilterSettings ==
    [passwordAccess : {FALSE}, accessPasswords : {{}},
     subscriptions : {<<Sub(4)>>},
     sources : {<<"s1">>}, premiumSources : {<<>>}]

FilterEditedSubIds == {2}

FilterInit ==
    /\ settings \in FilterSettings
    /\ sessionStorage = "null"
    /\ initialHasEnvPassword = FALSE
    /\ InitCommon

FilterNext ==
    \/ Mount
    \/ \E l \in EnvSubscriptionSources : ConfigOk(FALSE, TRUE, l)
    \/ Tick
    \/ \E k \in 1..Len(timers) : TimerFire(k)
    \/ \E b \in 1..Len(batches) :
          \E r \in FetchOutcomes(batches[b].active[batches[b].i]) : FetchReturn(b, r)
    \/ \E i \in FilterEditedSubIds : AddSubscription(i)
    \/ \E i \in FilterEditedSubIds : RemoveSubscription(i)

\* The mounted hook over those lists.
FilterSpec == FilterInit /\ [][FilterNext]_vars

\* The browser runs a due timer's callback, every fetch settles (with a result
\* or an error), and time passes.
SyncFairness ==
    /\ WF_vars(Tick)
    /\ WF_vars(\E k \in 1..Len(timers) : TimerFire(k))
    /\ WF_vars(\E b \in 1..Len(batches) :
                 \E r \in FetchOutcomes(batches[b].active[batches[b].i]) :
                    FetchReturn(b, r))

\* The mounted hook over the lists of FilterSpec, scheduled fairly.
FilterLive == FilterSpec /\ SyncFairness

\* ------------------------------------------------------------------ PasswordGate: properties

\* The step just made ran one of the lock computations' setIsLocked calls
\* (line 30, line 54, line 84 or line 86).
LockAssigned == ev \in {"mount", "confirm", "unlock", "lock"}

\* C1: every value the lock computations assign to the lock state equals
\* (passwordAccess OR server password known) AND NOT session-unlocked, taken on
\* the store, the known server-password flag and the session flag as they are
\* when the assignment is made.
C1_AssignedFromCurrentState ==
    LockAssigned =>
        isLocked = Locked(settings.passwordAccess, hasEnvPassword, isUnlocked)

\* An unlock attempt has matched since this mount's init() read the flag.
MatchedSinceMount == initPc # "start" /\ isUnlocked /\ ~initIsUnlocked

\* C2: once an unlock attempt has matched and set the session flag, the lock
\* state is false in every later state of the mounted gate.
C2_UnlockedStaysUnlocked ==
    (mounted /\ MatchedSinceMount) => ~isLocked

\* C3: with passwordAccess on in the store and the session flag absent, the
\* resolved lock state of the mounted gate is true.
C3_PasswordAccessLocks ==
    (mounted /\ isClient /\ settings.passwordAccess /\ ~isUnlocked) => isLocked

\* C4: settings with passwordAccess off (as init() read them and as they are
\* now), no server password (prop false; config answered false or failed):
\* once init() has completed the lock state is false.
C4_NoPasswordUnlocked ==
    (/\ mounted /\ initPc = "done"
     /\ ~initSettings.passwordAccess /\ ~settings.passwordAccess
     /\ ~initialHasEnvPassword /\ ~hasEnvPassword) => ~isLocked

C4_Witness ==
    /\ ev = "confirm" /\ mounted /\ initPc = "done"
    /\ ~initSettings.passwordAccess /\ ~settings.passwordAccess
    /\ ~initialHasEnvPassword /\ ~hasEnvPassword
    /\ ~isUnlocked /\ ~isLocked /\ Render = "children"

\* C5: a session flag already 'true' at mount gives lock state false after the
\* local check and after the server-confirmed check, whatever passwordAccess
\* and hasEnvPassword are.
C5_SessionUnlockedAtMount ==
    (initIsUnlocked /\ ev \in {"mount", "confirm"}) => ~isLocked

C5_Witness ==
    /\ ev = "confirm" /\ initIsUnlocked
    /\ initSettings.passwordAccess /\ hasEnvPassword /\ ~isLocked

\* C6: an unlock attempt whose candidate is in accessPasswords sets the session
\* flag, clears the lock state and the error flag, and sends no POST.
C6_LocalMatchNoRequest ==
    [][(handleUnlock /\ password \in settings.accessPasswords) =>
          /\ sessionStorage' = SESSION_UNLOCKED
          /\ ~isLocked' /\ ~error'
          /\ posts' = posts]_vars

C6_Witness ==
    /\ ev = "unlockLocal" /\ hasEnvPassword /\ password \in settings.accessPasswords
    /\ isUnlocked /\ ~isLocked /\ ~error /\ posts = 0

\* C7: a candidate not in accessPasswords with hasEnvPassword known is sent to
\* the server; {valid: true} sets the session flag and clears the lock state;
\* any other answer, or a failed request, changes neither and sets the error flag.
C7_ServerValidation ==
    [][/\ (handleUnlock /\ password \notin settings.accessPasswords /\ hasEnvPassword) =>
             (posts' = posts + 1 /\ sessionStorage' = sessionStorage /\ isLocked' = isLocked)
       /\ (PostValid /\ mounted) =>
             (sessionStorage' = SESSION_UNLOCKED /\ ~isLocked' /\ ~error')
       /\ (PostRejected /\ mounted) =>
             (sessionStorage' = sessionStorage /\ isLocked' = isLocked /\ error')]_vars

C7_Witness ==
    /\ ev = "postRejected" /\ mounted /\ hasEnvPassword
    /\ password \notin settings.accessPasswords
    /\ ~isUnlocked /\ isLocked /\ error /\ Render = "prompt"

\* C8: until init()'s local read has run the gate renders neither the children
\* nor the prompt; from then on it renders the children exactly when the lock
\* state is false and the prompt exactly when it is true.
C8_RenderFollowsLock ==
    /\ (initPc = "start" \/ ~isClient) => Render \notin {"children", "prompt"}
    /\ (mounted /\ initPc # "start") =>
          /\ (Render = "children") = ~isLocked
          /\ (Render = "prompt") = isLocked

C8_Witness ==
    /\ mounted /\ initPc = "done" /\ isLocked /\ Render = "prompt" /\ ev = "lock"

\* ------------------------------------------------------------------ useSubscriptionSync: properties

\* lastUpdated of subscription id in subs (0 when the list has no such entry).
lastUpdatedOf(subs, id) ==
    IF findIndex(subs, id) = 0 THEN 0 ELSE subs[findIndex(subs, id)].lastUpdated

\* C9: when a batch in which some fetch failed ends, every active subscription
\* has been fetched, what the other subscriptions returned is in the store's
\* sources and premiumSources after the batch's write, and the failing
\* subscription's lastUpdated is the one the batch started with.
C9_FailureIsolated ==
    [][\A b \in 1..Len(batches) :
         \A r \in FetchOutcomes(batches[b].active[batches[b].i]) :
            LET batch == AfterFetch(batches[b], r)
            IN (/\ FetchReturn(b, r)
                /\ batch.i > Len(batch.active)
                /\ \E j \in 1..Len(batch.log) : ~batch.log[j].ok) =>
                  /\ Len(batch.log) = Len(batch.active)
                  /\ \A j \in 1..Len(batch.log) :
                        IF batch.log[j].ok
                        THEN /\ Range(batch.log[j].normalSources) \subseteq
                                    Range(settings'.sources)
                             /\ Range(batch.log[j].premiumSources) \subseteq
                                    Range(settings'.premiumSources)
                        ELSE IF batch.anyChanged
                        THEN lastUpdatedOf(settings'.subscriptions, batch.active[j].id) =
                                lastUpdatedOf(batch.subscriptions, batch.active[j].id)
                        ELSE settings' = settings]_vars

C9_Witness ==
    /\ ev = "syncSaved"
    /\ Len(settings.subscriptions) = 3
    /\ settings.subscriptions[1].lastUpdated > 0
    /\ settings.subscriptions[2].lastUpdated = 0
    /\ settings.subscriptions[3].lastUpdated > 0
    /\ {"s1", "s3"} \subseteq Range(settings.sources)
    /\ "s2" \notin Range(settings.sources)

\* C10: the changes of the subscription list that arrive while a timer is
\* pending leave one pending timer, the last one armed, and at most one run of
\* sync() comes out of the whole burst.
C10_DebounceCollapses ==
    /\ Len(timers) <= 1
    /\ timeoutPending = (Len(timers) = 1)
    /\ burst.fired <= 1

C10_Witness ==
    /\ ev = "syncStart" /\ burst.armed >= 3 /\ burst.fired = 1
    /\ timers = <<>> /\ Len(batches) = 1

\* The ids of the subscriptions in subs.
idsOf(subs) == {subs[j].id : j \in 1..Len(subs)}

\* C11: after an outside change of the subscription list and no further one,
\* sync() runs, its write re-arms the effect once, sync() runs again, and no
\* fetch is issued after that second run: at most two runs of sync() issue
\* fetches, whatever the feeds return.
C11_Quiesces == passes <= 2

\* C12: the write of a sync batch leaves no subscription of the store with a
\* smaller lastUpdated than the store held before the write, also when another
\* batch wrote in between.
C12_LastUpdatedMonotone ==
    [][ev' = "syncSaved" =>
          \A id \in idsOf(settings.subscriptions) \cap idsOf(settings'.subscriptions) :
             lastUpdatedOf(settings'.subscriptions, id) >=
                lastUpdatedOf(settings.subscriptions, id)]_vars

\* C13: a batch calls saveSettings only when its loop has ended, once at
\* most, and not at all when the merged sources and premiumSources equal the
\* lists it started from: then the store, the hook's list and its timer are
\* as they were.
C13_NoWriteWhenUnchanged ==
    [][\A b \in 1..Len(batches) :
         \A r \in FetchOutcomes(batches[b].active[batches[b].i]) :
            LET batch == AfterFetch(batches[b], r)
            IN FetchReturn(b, r) =>
                 /\ batch.i <= Len(batch.active) => settings' = settings
                 /\ (/\ batch.i > Len(batch.active)
                     /\ batch.currentSources = batch.settings.sources
                     /\ batch.currentPremiumSources = batch.settings.premiumSources) =>
                       /\ settings' = settings
                       /\ subscriptions' = subscriptions
                       /\ timers' = timers]_vars

\* C14: a failed GET /api/config changes neither the lock state nor the known
\* server-password flag nor the store nor the hook's list; the flag is still
\* the hasEnvPassword prop, and with the store's password switch and the session
\* flag as init() read them the lock state is still the local check's value.
\* A locked gate stays locked.
C14_ConfigFailKeepsState ==
    [][ConfigFail =>
          /\ isLocked' = isLocked
          /\ hasEnvPassword' = hasEnvPassword
          /\ hasEnvPassword' = initialHasEnvPassword
          /\ settings' = settings
          /\ subscriptions' = subscriptions
          /\ (/\ mounted
              /\ settings.passwordAccess = initSettings.passwordAccess
              /\ isUnlocked = initIsUnlocked) =>
                isLocked' = localLocked(initSettings, initIsUnlocked)]_vars

C14_Witness ==
    /\ ev = "configFail" /\ mounted /\ initPc = "done"
    /\ initialHasEnvPassword /\ hasEnvPassword /\ ~settings.passwordAccess
    /\ ~isUnlocked /\ isLocked /\ Render = "prompt"

\* The lists of the successful fetches among log, merged in order onto start.
RECURSIVE mergedNormal(_, _)
mergedNormal(start, log) ==
    IF log = <<>> THEN start
    ELSE mergedNormal(IF Head(log).ok THEN mergeSources(start, Head(log).normalSources)
                      ELSE start, Tail(log))

RECURSIVE mergedPremium(_, _)
mergedPremium(start, log) ==
    IF log = <<>> THEN start
    ELSE mergedPremium(IF Head(log).ok THEN mergeSources(start, Head(log).premiumSources)
                       ELSE start, Tail(log))

\* A batch awaits fetch i with the i - 1 earlier ones settled, and its
\* accumulators hold the earlier successful results merged in order.
SequentialSoFar(batch) ==
    /\ batch.i <= Len(batch.active)
    /\ Len(batch.log) = batch.i - 1
    /\ batch.currentSources = mergedNormal(batch.settings.sources, batch.log)
    /\ batch.currentPremiumSources = mergedPremium(batch.settings.premiumSources, batch.log)

\* C15: in a batch the fetch of subscription i + 1 is issued only when the
\* fetch of subscription i has settled; every successful result is merged onto
\* what the earlier ones left, a failure leaves the accumulators as they are,
\* and what the batch writes is the merge of all its successful results.
C15_SequentialMerge ==
    [][/\ \A b \in 1..Len(batches') : SequentialSoFar(batches'[b])
       /\ \A b \in 1..Len(batches) :
             \A r \in FetchOutcomes(batches[b].active[batches[b].i]) :
                FetchReturn(b, r) =>
                   /\ (~r.ok /\ Len(batches') = Len(batches)) =>
                         /\ batches'[b].currentSources = batches[b].currentSources
                         /\ batches'[b].currentPremiumSources =
                               batches[b].currentPremiumSources
                   /\ ev' = "syncSaved" =>
                         /\ settings'.sources =
                               mergedNormal(batches[b].settings.sources,
                                            Append(batches[b].log, r))
                         /\ settings'.premiumSources =
                               mergedPremium(batches[b].settings.premiumSources,
                                             Append(batches[b].log, r))]_vars

C15_Witness ==
    /\ ev = "syncSaved"
    /\ settings.sources = <<"s1", "s2">>
    /\ settings.premiumSources = <<"p2">>
    /\ Len(settings.subscriptions) = 3
    /\ settings.subscriptions[1].lastUpdated > 0
    /\ settings.subscriptions[2].lastUpdated > 0
    /\ settings.subscriptions[3].lastUpdated = 0

\* The subscriptions of subs that are switched off (autoRefresh: false).
switchedOff(subs) == {j \in 1..Len(subs) : subs[j].autoRefresh = "false"}

\* C16: a batch fetches exactly the subscriptions of its list whose
\* autoRefresh is not false, in order and all of them; its write leaves the
\* switched-off entries as the list held them; a run of sync() over a list with
\* no active subscription starts no batch and writes nothing.
C16_OnlyActiveFetched ==
    [][/\ \A b \in 1..Len(batches') :
             LET batch == batches'[b]
                 kept == {j \in 1..Len(batch.subscriptions) :
                             j \notin switchedOff(batch.subscriptions)}
             IN /\ Len(batch.active) = Cardinality(kept)
                /\ Len(batch.active) > 0
                /\ \A j \in kept :
                      batch.active[Cardinality({m \in kept : m <= j})] =
                         batch.subscriptions[j]
                /\ \A j \in switchedOff(batch.subscriptions) :
                      batch.updatedSubscriptions[j] = batch.subscriptions[j]
       /\ \A b \in 1..Len(batches) :
             \A r \in FetchOutcomes(batches[b].active[batches[b].i]) :
                (FetchReturn(b, r) /\ Len(batches') < Len(batches)) =>
                   /\ Len(batches[b].log) + 1 = Len(batches[b].active)
                   /\ ev' = "syncSaved" =>
                         \A j \in switchedOff(batches[b].subscriptions) :
                            /\ settings'.subscriptions[j] = batches[b].subscriptions[j]
                            /\ lastUpdatedOf(settings'.subscriptions,
                                             batches[b].subscriptions[j].id) =
                                  lastUpdatedOf(settings.subscriptions,
                                                batches[b].subscriptions[j].id)
       /\ \A k \in 1..Len(timers) :
             (/\ TimerFire(k)
              /\ switchedOff(timers[k].subscriptions) = 1..Len(timers[k].subscriptions)) =>
                 /\ batches' = batches
                 /\ settings' = settings]_vars

C16_Witness ==
    /\ ev = "syncSaved"
    /\ idsOf(settings.subscriptions) = {4, 1, 2}
    /\ lastUpdatedOf(settings.subscriptions, 1) > 0
    /\ lastUpdatedOf(settings.subscriptions, 2) > 0
    /\ lastUpdatedOf(settings.subscriptions, 4) = 0

\* C17: when a batch ends, every subscription whose fetch succeeded in it has
\* in the store the lastUpdated the batch took at that fetch, also when the
\* fetch returned two empty lists.
C17_SuccessRecorded ==
    [][\A b \in 1..Len(batches) :
         \A r \in FetchOutcomes(batches[b].active[batches[b].i]) :
            LET batch == AfterFetch(batches[b], r)
            IN (FetchReturn(b, r) /\ batch.i > Len(batch.active)) =>
                  \A j \in 1..Len(batch.log) :
                     batch.log[j].ok =>
                        lastUpdatedOf(settings'.subscriptions, batch.active[j].id) =
                           lastUpdatedOf(batch.updatedSubscriptions, batch.active[j].id)]_vars

\* C19: the session flag changes only to 'true', and only in a handleUnlock
\* step whose candidate is in accessPasswords or in the step that handles a
\* {valid: true} answer of the server; mount, the config response or failure,
\* a settings change, a rejected or failed validation and a non-matching
\* attempt leave it as it is.
C19_FlagSetOnlyByMatch ==
    [][/\ sessionStorage' # sessionStorage =>
             /\ sessionStorage' = SESSION_UNLOCKED
             /\ \/ handleUnlock /\ password \in settings.accessPasswords
                \/ PostValid
       /\ ev' \in {"mount", "confirm", "configDropped", "configFail", "lock", "unlock",
                   "none", "saved", "postRejected", "unlockNoMatch", "unlockPost",
                   "onChange", "unmount"} => sessionStorage' = sessionStorage]_vars

C19_Witness ==
    /\ ev = "postValid" /\ mounted /\ isUnlocked /\ ~initIsUnlocked
    /\ password \notin settings.accessPasswords /\ hasEnvPassword /\ ~isLocked

\* subs with every lastUpdated blanked.
withoutTimestamps(subs) == [j \in 1..Len(subs) |-> [subs[j] EXCEPT !.lastUpdated = 0]]

\* C20: the write that ends a batch changes sources, premiumSources and the
\* subscriptions' lastUpdated only: passwordAccess, accessPasswords and the
\* subscriptions in the list (their ids, order and switches) are after the
\* write what the store held just before it.
C20_WriteKeepsOtherChanges ==
    [][ev' = "syncSaved" =>
          /\ settings'.passwordAccess = settings.passwordAccess
          /\ settings'.accessPasswords = settings.accessPasswords
          /\ withoutTimestamps(settings'.subscriptions) =
                withoutTimestamps(settings.subscriptions)]_vars

\* The list has a subscription that is not switched off.
hasActive(subs) == switchedOff(subs) # 1..Len(subs)

\* A replacement of the list has armed a timer that is still pending, for a
\* list with an active subscription (and the clock can reach its due time).
ReplacementPending ==
    /\ mounted
    /\ timers # <<>>
    /\ timers[Len(timers)].subscriptions = subscriptions
    /\ hasActive(subscriptions)
    /\ timers[Len(timers)].due <= MaxTime

\* The step just made replaced the list in the store.
ListReplaced == ev \in {"confirm", "subscriptionAdded", "subscriptionRemoved", "syncSaved"}

\* The step just made started a batch over the hook's list, which will fetch
\* every subscription of the list that is not switched off.
BatchStarted ==
    /\ ev = "syncStart"
    /\ batches # <<>>
    /\ batches[Len(batches)].subscriptions = subscriptions
    /\ \A j \in 1..Len(subscriptions) :
          j \notin switchedOff(subscriptions) =>
             subscriptions[j] \in Range(batches[Len(batches)].active)

\* The step just made ended a batch: its last fetch has settled.
BatchEnded == ev \in {"syncSaved", "syncNoSave"}

\* C18: while the hook is mounted, a replacement of the list by one with an
\* active subscription leads, with no user action, to a batch over that list
\* unless another replacement arrives first; and a started batch goes on until
\* the fetch of its last active subscription has settled.
C18_ReplacementLeadsToSync ==
    /\ ReplacementPending ~> (BatchStarted \/ ListReplaced)
    /\ (batches # <<>>) ~> BatchEnded

C18_Witness ==
    /\ BatchStarted /\ initPc = "done" /\ passes = 1 /\ burst.fired = 1
    /\ idsOf(subscriptions) = {4, 1}
    /\ idsOf(batches[1].active) = {1}

====
